---------------------------- MODULE Spec2Model ----------------------------
(* EduRisk AI (src/app.py): the Streamlit script, its session state, the   *)
(* Azure ML predictor with its local fallback scorer, the Azure OpenAI     *)
(* guide with its static fallback plans, and the weak-area detection of    *)
(* the Analyze handler.                                                    *)
(*                                                                         *)
(* Numbers.  Percentages and study hours are the integers the sliders      *)
(* produce.  previous_gpa is kept in tenths (6.5 is 65).  The weighted     *)
(* score is kept in hundredths: 100 * score = 15a + 20b + 20c + 20d + 15s  *)
(* + (10 * gpa), so the comparisons score < 60 and score < 75 are          *)
(* Score100 < 6000 and Score100 < 7500.  Confidences and probabilities are *)
(* kept in hundredths as well (0.85 is 85).  On the slider grid the float  *)
(* sum of lines 248-255 lies on the same side of 60 and of 75 as the exact *)
(* sum, also when the exact sum is 60 or 75 or one hundredth away from it. *)
EXTENDS Integers, Sequences, FiniteSets, TLC

VARIABLES
    sliders,      \* the six slider widgets of the sidebar (values this run)
    analyzed,     \* st.session_state.analyzed
    prediction,   \* st.session_state.prediction
    guidance,     \* st.session_state.guidance
    weak_areas,   \* st.session_state.weak_areas
    features,     \* st.session_state.features
    scores,       \* st.session_state.scores
    ml_service,     \* the Azure ML credentials and how the endpoint answers
    openai_service, \* the Azure OpenAI settings and how the service answers
    error,        \* exception that ended the last script run ("none" if none)
    demo,         \* st.session_state.attendance .. gpa, the demo values
    last_run,     \* what triggered the last run of the script
    analyses      \* analyses run in this session, counted up to MaxAnalyses

vars == <<sliders, analyzed, prediction, guidance, weak_areas,
          features, scores, ml_service, openai_service, error,
          demo, last_run, analyses>>

-----------------------------------------------------------------------------
(* Python values *)

\* None, and the empty dict {}: both are falsy and have no keys
Empty == [k \in {} |-> 0]

\* Python truthiness of a dict-or-None
Truthy(d) == DOMAIN d # {}

\* dict.get(key, default)
Get(d, key, default) == IF key \in DOMAIN d THEN d[key] ELSE default

RiskLevels == {"High", "Medium", "Low"}

-----------------------------------------------------------------------------
(* AzureMLPredictor._fallback_prediction *)

\* the six weights of lines 249-254, in hundredths (0.15 is 15)
Weights ==
    [attendance_pct |-> 15, assignment_score |-> 20, quiz_score |-> 20,
     midterm_score |-> 20, study_hours_per_week |-> 15, previous_gpa |-> 10]

\* the weighted sum of lines 248-255, in hundredths; the metrics enter as
\* they are: study hours in hours, the GPA on its 0-10 scale (f holds it in
\* tenths, hence the division of its term by 10)
Score100(f) ==
      Get(f, "attendance_pct", 75) * Weights.attendance_pct
    + Get(f, "assignment_score", 70) * Weights.assignment_score
    + Get(f, "quiz_score", 65) * Weights.quiz_score
    + Get(f, "midterm_score", 60) * Weights.midterm_score
    + Get(f, "study_hours_per_week", 12) * Weights.study_hours_per_week
    + (Get(f, "previous_gpa", 65) * Weights.previous_gpa) \div 10

\* Classify with <= for <: a score on a threshold gets the higher risk
Classify_BoundaryHigher(score100) ==
    IF score100 <= 6000 THEN [risk |-> "High", confidence |-> 85]
    ELSE IF score100 <= 7500 THEN [risk |-> "Medium", confidence |-> 80]
    ELSE [risk |-> "Low", confidence |-> 90]

\* the if / elif / else of lines 257-265
Classify(score100) ==
    IF score100 < 6000 THEN [risk |-> "High", confidence |-> 85]
    ELSE IF score100 < 7500 THEN [risk |-> "Medium", confidence |-> 80]
    ELSE [risk |-> "Low", confidence |-> 90]

\* _fallback_prediction with a confidence that depends on the session: one
\* hundredth more once an analysis has been stored
fallback_prediction_SessionDependent(f) ==
    LET c == IF Truthy(f) THEN Classify(Score100(f))
             ELSE [risk |-> "Medium", confidence |-> 85]
    IN [risk_level    |-> c.risk,
        confidence    |-> c.confidence + (IF analyzed THEN 1 ELSE 0),
        probabilities |-> [High |-> 30, Medium |-> 40, Low |-> 30],
        response_time |-> "0.1",
        is_fallback   |-> TRUE]

\* _fallback_prediction marking its result only when it scored features
fallback_prediction_MarkedIfScored(f) ==
    LET c == IF Truthy(f) THEN Classify(Score100(f))
             ELSE [risk |-> "Medium", confidence |-> 85]
    IN [risk_level    |-> c.risk,
        confidence    |-> c.confidence,
        probabilities |-> [High |-> 30, Medium |-> 40, Low |-> 30],
        response_time |-> "0.1",
        is_fallback   |-> Truthy(f)]

\* the record built at lines 272-278; f is Empty when called without features
fallback_prediction(f) ==
    LET c == IF Truthy(f) THEN Classify(Score100(f))
             ELSE [risk |-> "Medium", confidence |-> 85]
    IN [risk_level    |-> c.risk,
        confidence    |-> c.confidence,
        probabilities |-> [High |-> 30, Medium |-> 40, Low |-> 30],
        response_time |-> "0.1",
        is_fallback   |-> TRUE]

-----------------------------------------------------------------------------
(* JSON bodies of the Azure ML endpoint *)

\* a JSON scalar: a number (v), a non-numeric string, or null
Num(n) == [t |-> "num", v |-> n]
Str    == [t |-> "str", v |-> 0]
Null   == [t |-> "null", v |-> 0]

\* an element of result["output"]: a list of scalars, or a bare scalar
Row(vals)  == [is_list |-> TRUE, vals |-> vals]
ScalarRow  == [is_list |-> FALSE, vals |-> <<>>]

\* response.json(): not JSON at all, JSON null, or an object with or
\* without the key "output"
Body(json, has_output, output) ==
    [json |-> json, has_output |-> has_output, output |-> output]

NoBody == Body("invalid", FALSE, <<>>)

\* int(x) / float(x): the exception the conversion raises, "none" if none
ConvExc(x) ==
    IF x.t = "num" THEN "none"
    ELSE IF x.t = "str" THEN "ValueError"
    ELSE "TypeError"

\* the first exception raised by int(p[0]), float(p[1]), .. float(p[4])
RECURSIVE FirstConvExc(_, _)
FirstConvExc(p, i) ==
    IF i > 5 THEN "none"
    ELSE IF ConvExc(p[i]) # "none" THEN ConvExc(p[i])
    ELSE FirstConvExc(p, i + 1)

\* risk_map.get with "Low" for the default
risk_map_DefaultLow(idx) ==
    IF idx = 0 THEN "High"
    ELSE IF idx = 1 THEN "Medium"
    ELSE "Low"

\* risk_map.get(int(predictions[0]), "Medium")
risk_map(idx) ==
    IF idx = 0 THEN "High"
    ELSE IF idx = 1 THEN "Medium"
    ELSE IF idx = 2 THEN "Low"
    ELSE "Medium"

\* what a call returns: exc is the exception it raised ("none": it returned
\* val)
Return(val)  == [exc |-> "none", val |-> val]
Raise(exc)   == [exc |-> exc, val |-> fallback_prediction(Empty)]

\* AzureMLPredictor._parse_response: the except clause catches ValueError,
\* IndexError and KeyError only; a TypeError leaves the method
parse_response(result) ==
    IF result.json = "null" THEN Raise("TypeError")
    ELSE IF result.has_output /\ Len(result.output) > 0 THEN
        LET predictions == result.output[1] IN
        IF ~predictions.is_list THEN Raise("TypeError")
        ELSE IF Len(predictions.vals) >= 5 THEN
            LET p == predictions.vals
                e == FirstConvExc(p, 1)
            IN IF e = "none" THEN
                   Return([risk_level    |-> risk_map(p[1].v),
                           confidence    |-> p[2].v,
                           probabilities |-> [High |-> p[3].v,
                                              Medium |-> p[4].v,
                                              Low |-> p[5].v],
                           response_time |-> "none",
                           is_fallback   |-> FALSE])
               ELSE IF e \in {"ValueError", "IndexError", "KeyError"} THEN
                   Return(fallback_prediction(Empty))
               ELSE Raise(e)
        ELSE Return(fallback_prediction(Empty))
    ELSE Return(fallback_prediction(Empty))

-----------------------------------------------------------------------------
(* AzureMLPredictor.predict *)

\* an Azure ML call: the two credentials (TRUE: set), what requests.post
\* came to, and the response it returned
MLCall(endpoint_url, api_key, post, status_code, body) ==
    [endpoint_url |-> endpoint_url, api_key |-> api_key, post |-> post,
     status_code |-> status_code, body |-> body]

\* the body of the try statement, lines 171-199
predict_try(f, call) ==
    IF call.post # "response" THEN Raise(call.post)
    ELSE IF call.status_code = 200 THEN
        IF call.body.json = "invalid" THEN Raise("ValueError")
        ELSE LET r == parse_response(call.body) IN
             IF r.exc # "none" THEN r
             ELSE Return([r.val EXCEPT !.response_time = "elapsed"])
    ELSE Return(fallback_prediction(f))

\* predict_except without the clause "except Exception"
predict_except_NoCatchAll(f, r) ==
    IF r.exc = "none" THEN r
    ELSE IF r.exc = "Timeout" THEN Return(fallback_prediction(f))
    ELSE IF r.exc = "ConnectionError" THEN Return(fallback_prediction(f))
    ELSE r

\* the except clauses, lines 201-210: Timeout, ConnectionError, Exception
predict_except(f, r) ==
    IF r.exc = "none" THEN r
    ELSE IF r.exc = "Timeout" THEN Return(fallback_prediction(f))
    ELSE IF r.exc = "ConnectionError" THEN Return(fallback_prediction(f))
    ELSE Return(fallback_prediction(f))

predict(f, call) ==
    IF ~call.endpoint_url \/ ~call.api_key
    THEN Return(fallback_prediction(f))
    ELSE predict_except(f, predict_try(f, call))

-----------------------------------------------------------------------------
(* AzureOpenAIGuide *)

\* the three plans of _fallback_guidance, line by line (the bullet and
\* emoji characters of the source are written in ASCII)
plans ==
    [High |-> <<
        "**URGENT 7-DAY ACADEMIC RECOVERY PLAN**",
        "",
        "**Days 1-2: IMMEDIATE ACTION REQUIRED**",
        "* Meet with academic advisor TODAY to create recovery plan",
        "* Attend 100% of classes starting immediately",
        "* Submit all missing assignments within 48 hours",
        "* Identify top 3 priority subjects needing attention",
        "",
        "**Days 3-5: INTENSIVE STUDY SESSIONS**",
        "* Study 4+ hours daily in focused, distraction-free environment",
        "* Target weakest subjects first (2 hours per weak subject daily)",
        "* Work with tutor or study group for difficult concepts",
        "* Complete 20+ practice problems per subject",
        "",
        "**Days 6-7: MOMENTUM BUILDING**",
        "* Take full practice exam under timed conditions",
        "* Create detailed 30-day study schedule",
        "* Review progress with mentor",
        "* Set up weekly accountability check-ins" >>,
     Medium |-> <<
        "**FOCUSED IMPROVEMENT PLAN - NEXT 7 DAYS**",
        "",
        "**DAILY ROUTINE (2-3 hours structured study):**",
        "* Morning: Review previous day's material (30 mins)",
        "* Afternoon: Focus on one weak area (90 mins)",
        "* Evening: Practice and application (60 mins)",
        "",
        "**WEEKLY ACTION ITEMS:**",
        "1. Improve attendance to 90%+ consistently",
        "2. Raise assignment scores by 10+ points",
        "3. Master 5 key concepts in weakest subject",
        "4. Join or form study group",
        "5. Meet with professor during office hours",
        "6. Complete all practice quizzes",
        "7. Track progress with weekly self-assessment" >>,
     Low |-> <<
        "**EXCELLENCE ACCELERATION PLAN**",
        "",
        "**ADVANCED LEARNING (Days 1-3):**",
        "* Study topics beyond current curriculum",
        "* Start independent academic project or research",
        "* Prepare for academic competitions",
        "* Learn advanced tools/techniques in your field",
        "",
        "**LEADERSHIP DEVELOPMENT (Days 4-5):**",
        "* Mentor struggling classmates",
        "* Lead study group sessions",
        "* Present a topic to your class",
        "* Volunteer for academic committees",
        "",
        "**FUTURE PREPARATION (Days 6-7):**",
        "* Prepare for advanced placement exams",
        "* Research university programs/scholarships",
        "* Build academic portfolio",
        "* Network with professionals in your field" >>]

\* _fallback_guidance returning the default plan whatever the risk level
fallback_guidance_DefaultPlan(risk_level) == plans["Medium"]

\* AzureOpenAIGuide._fallback_guidance: plans.get(risk_level, plans["Medium"])
fallback_guidance(risk_level) == Get(plans, risk_level, plans["Medium"])

\* the text a chat completion carries in choices[0].message.content
RemoteText == << "(text generated by the Azure OpenAI deployment)" >>

\* an Azure OpenAI call: the three settings (TRUE: set), what requests.post
\* came to, and the response; choices is "missing" (no key "choices"),
\* "empty" (choices = []), "no_content" (choices[0] without message.content),
\* "null_content" (message.content is the JSON null) or "content"
OpenAICall(endpoint, api_key, deployment, post, status_code, choices) ==
    [endpoint |-> endpoint, api_key |-> api_key, deployment |-> deployment,
     post |-> post, status_code |-> status_code, choices |-> choices]

GReturn(text) == [exc |-> "none", val |-> text]
GRaise(exc)   == [exc |-> exc, val |-> <<>>]

\* the body of the try statement, lines 335-356
generate_guidance_try(risk_level, call) ==
    IF call.post # "response" THEN GRaise(call.post)
    ELSE IF call.status_code = 200 THEN
        IF call.choices = "invalid" THEN GRaise("ValueError")
        ELSE IF call.choices = "missing" THEN GRaise("KeyError")
        ELSE IF call.choices = "empty" THEN GRaise("IndexError")
        ELSE IF call.choices = "no_content" THEN GRaise("KeyError")
        ELSE IF call.choices = "null_content" THEN GReturn(Empty)
        ELSE GReturn(RemoteText)
    ELSE GReturn(fallback_guidance(risk_level))

\* the except clauses, lines 358-367: Timeout, ConnectionError, Exception
generate_guidance_except(risk_level, r) ==
    IF r.exc = "none" THEN r
    ELSE IF r.exc = "Timeout" THEN GReturn(fallback_guidance(risk_level))
    ELSE IF r.exc = "ConnectionError"
         THEN GReturn(fallback_guidance(risk_level))
    ELSE GReturn(fallback_guidance(risk_level))

\* AzureOpenAIGuide.generate_guidance; weak_areas_arg and scores_arg only
\* go into the prompt of the request
generate_guidance(risk_level, weak_areas_arg, scores_arg, call) ==
    IF ~call.endpoint \/ ~call.api_key \/ ~call.deployment
    THEN GReturn(fallback_guidance(risk_level))
    ELSE generate_guidance_except(risk_level,
                                  generate_guidance_try(risk_level, call))

-----------------------------------------------------------------------------
(* Weak areas, lines 615-622 *)

\* the label f"Attendance ({attendance}%)": the metric and the value shown
Label(metric, value) == [metric |-> metric, value |-> value]

\* weak_areas.append(x) when cond holds
AppendIf(seq, cond, x) == IF cond THEN Append(seq, x) ELSE seq

\* the weak areas with <= for < in the attendance test
identify_weak_areas_AtTarget(s) ==
    LET w1 == AppendIf(<<>>, s.attendance <= 75,
                       Label("Attendance", s.attendance))
        w2 == AppendIf(w1, s.assignment < 60,
                       Label("Assignments", s.assignment))
        w3 == AppendIf(w2, s.quiz < 60, Label("Quizzes", s.quiz))
        w4 == AppendIf(w3, s.midterm < 60, Label("Midterm", s.midterm))
        w5 == AppendIf(w4, s.study_hours < 10,
                       Label("Study Hours", s.study_hours))
        w6 == AppendIf(w5, s.gpa < 60, Label("GPA", s.gpa))
    IN w6

\* the weak areas with the GPA test ahead of the study-hours test
identify_weak_areas_Reordered(s) ==
    LET w1 == AppendIf(<<>>, s.attendance < 75,
                       Label("Attendance", s.attendance))
        w2 == AppendIf(w1, s.assignment < 60,
                       Label("Assignments", s.assignment))
        w3 == AppendIf(w2, s.quiz < 60, Label("Quizzes", s.quiz))
        w4 == AppendIf(w3, s.midterm < 60, Label("Midterm", s.midterm))
        w5 == AppendIf(w4, s.gpa < 60, Label("GPA", s.gpa))
        w6 == AppendIf(w5, s.study_hours < 10,
                       Label("Study Hours", s.study_hours))
    IN w6

\* lines 616-622: the six tests in their order
identify_weak_areas(s) ==
    LET w1 == AppendIf(<<>>, s.attendance < 75,
                       Label("Attendance", s.attendance))
        w2 == AppendIf(w1, s.assignment < 60,
                       Label("Assignments", s.assignment))
        w3 == AppendIf(w2, s.quiz < 60, Label("Quizzes", s.quiz))
        w4 == AppendIf(w3, s.midterm < 60, Label("Midterm", s.midterm))
        w5 == AppendIf(w4, s.study_hours < 10,
                       Label("Study Hours", s.study_hours))
        w6 == AppendIf(w5, s.gpa < 60, Label("GPA", s.gpa))
    IN w6

-----------------------------------------------------------------------------
(* The inputs the model draws from *)

\* slider positions: each lies on its slider's grid (lines 550-561) and the
\* sets hold values below, at and above the thresholds of the code
AttendanceValues == {55, 75, 100}
AssignmentValues == {55, 60, 100}
QuizValues       == {45, 60, 100}
MidtermValues    == {45, 60, 80, 100}
StudyHoursValues == {4, 10, 20, 40}
GpaValues        == {50, 60, 100}

SliderStates ==
    [attendance : AttendanceValues, assignment : AssignmentValues,
     quiz : QuizValues, midterm : MidtermValues,
     study_hours : StudyHoursValues, gpa : GpaValues]

\* class indexes 0 .. MaxClassIndex come back from the endpoint
MaxClassIndex == 3

\* a well-formed row: class index, confidence, three probabilities
GoodRow(idx) == Row(<<Num(idx), Num(97), Num(10), Num(20), Num(70)>>)

MLBodies ==
    {NoBody,
     Body("null", FALSE, <<>>),
     Body("object", FALSE, <<>>),
     Body("object", TRUE, <<>>),
     Body("object", TRUE, <<ScalarRow>>),
     Body("object", TRUE, <<Row(<<Num(0), Num(97)>>)>>),
     Body("object", TRUE,
          <<Row(<<Str, Num(97), Num(10), Num(20), Num(70)>>)>>)}
    \cup {Body("object", TRUE, <<GoodRow(i)>>) : i \in 0..MaxClassIndex}

PostErrors == {"Timeout", "ConnectionError", "Exception"}

MLCalls ==
    {MLCall(FALSE, TRUE, "none", 0, NoBody),
     MLCall(TRUE, FALSE, "none", 0, NoBody),
     MLCall(TRUE, TRUE, "response", 500, NoBody)}
    \cup {MLCall(TRUE, TRUE, e, 0, NoBody) : e \in PostErrors}
    \cup {MLCall(TRUE, TRUE, "response", 200, b) : b \in MLBodies}

OpenAICalls ==
    {OpenAICall(FALSE, TRUE, TRUE, "none", 0, "missing"),
     OpenAICall(TRUE, FALSE, TRUE, "none", 0, "missing"),
     OpenAICall(TRUE, TRUE, FALSE, "none", 0, "missing"),
     OpenAICall(TRUE, TRUE, TRUE, "response", 500, "missing")}
    \cup {OpenAICall(TRUE, TRUE, TRUE, e, 0, "missing") : e \in PostErrors}
    \cup {OpenAICall(TRUE, TRUE, TRUE, "response", 200, c) :
            c \in {"invalid", "missing", "empty", "no_content",
                   "null_content", "content"}}

-----------------------------------------------------------------------------
(* The script *)

\* the analyses of a session are counted up to this number
MaxAnalyses == 2

\* lines 35-44 and 791-793: session state of a new session (the six demo
\* keys are None)
SessionInit ==
    /\ analyzed = FALSE
    /\ prediction = Empty
    /\ guidance = Empty
    /\ weak_areas = <<>>
    /\ features = Empty
    /\ scores = Empty
    /\ error = "none"
    /\ demo = Empty
    /\ last_run = "start"
    /\ analyses = 0

\* the features dict of lines 597-604
FeaturesOf(s) ==
    [attendance_pct |-> s.attendance, assignment_score |-> s.assignment,
     quiz_score |-> s.quiz, midterm_score |-> s.midterm,
     study_hours_per_week |-> s.study_hours, previous_gpa |-> s.gpa]

\* the scores dict of lines 606-613
ScoresOf(s) ==
    [attendance |-> s.attendance, assignment |-> s.assignment,
     quiz |-> s.quiz, midterm |-> s.midterm,
     study_hours |-> s.study_hours, gpa |-> s.gpa]

\* lines 594-636: the run of the script in which the Analyze button is
\* pressed; an exception that leaves predict or generate_guidance ends the
\* run before the assignments that follow it
Analyze ==
    LET f == FeaturesOf(sliders)
        sc == ScoresOf(sliders)
        w == identify_weak_areas(sc)
        p == predict(f, ml_service)
        g == generate_guidance(p.val.risk_level, w, sc, openai_service)
    IN /\ features' = f
       /\ scores' = sc
       /\ weak_areas' = w
       /\ IF p.exc # "none"
          THEN /\ error' = p.exc
               /\ UNCHANGED <<prediction, guidance, analyzed>>
          ELSE /\ prediction' = p.val
               /\ IF g.exc # "none"
                  THEN /\ error' = g.exc
                       /\ UNCHANGED <<guidance, analyzed>>
                  ELSE /\ guidance' = g.val
                       /\ analyzed' = TRUE
                       /\ error' = "none"
       /\ last_run' = "analyze"
       /\ analyses' = IF analyses < MaxAnalyses THEN analyses + 1
                      ELSE analyses
       /\ UNCHANGED <<sliders, ml_service, openai_service, demo>>

\* the analysis of every student profile of SliderStates against every
\* behaviour of the two services
ScorerInit ==
    /\ sliders \in SliderStates
    /\ ml_service \in MLCalls
    /\ openai_service \in OpenAICalls
    /\ SessionInit

ScorerNext == Analyze

ScorerSpec == ScorerInit /\ [][ScorerNext]_vars

\* the three scenarios of the test plan as metrics records: A (45, 38, 42,
\* 35, 4, 3.8), B (98, 92, 88, 94, 22, 9.1), C (75, 65, 60, 62, 10, 6.5)
ScenarioA ==
    [attendance |-> 45, assignment |-> 38, quiz |-> 42, midterm |-> 35,
     study_hours |-> 4, gpa |-> 38]
ScenarioB ==
    [attendance |-> 98, assignment |-> 92, quiz |-> 88, midterm |-> 94,
     study_hours |-> 22, gpa |-> 91]
ScenarioC ==
    [attendance |-> 75, assignment |-> 65, quiz |-> 60, midterm |-> 62,
     study_hours |-> 10, gpa |-> 65]

ScenarioStates == {ScenarioA, ScenarioB, ScenarioC}

\* the analysis of the three scenarios against every behaviour of the two
\* services
ScenarioInit ==
    /\ sliders \in ScenarioStates
    /\ ml_service \in MLCalls
    /\ openai_service \in OpenAICalls
    /\ SessionInit

ScenarioSpec == ScenarioInit /\ [][ScorerNext]_vars

-----------------------------------------------------------------------------
(* The session: sliders, demo buttons, analyses *)

\* the slider defaults of lines 550-561
SliderDefaults ==
    [attendance |-> 75, assignment |-> 70, quiz |-> 65, midterm |-> 60,
     study_hours |-> 12, gpa |-> 65]

\* the values of the two demo buttons, lines 569-574 and 579-584
HighRiskDemoValues ==
    [attendance |-> 55, assignment |-> 50, quiz |-> 45, midterm |-> 40,
     study_hours |-> 5, gpa |-> 45]
LowRiskDemoValues ==
    [attendance |-> 95, assignment |-> 90, quiz |-> 88, midterm |-> 92,
     study_hours |-> 25, gpa |-> 92]

\* the positions the user moves each slider to
SessionSliderValues ==
    [attendance |-> {55, 75}, assignment |-> {70}, quiz |-> {65},
     midterm |-> {60}, study_hours |-> {5, 12}, gpa |-> {45, 65}]

\* the behaviours of the two services met in a session
SessionMLCalls ==
    {MLCall(FALSE, TRUE, "none", 0, NoBody),
     MLCall(TRUE, TRUE, "response", 200, Body("object", FALSE, <<>>)),
     MLCall(TRUE, TRUE, "response", 200, Body("object", TRUE, <<GoodRow(0)>>))}

SessionOpenAICalls ==
    {OpenAICall(FALSE, TRUE, TRUE, "none", 0, "missing"),
     OpenAICall(TRUE, TRUE, TRUE, "response", 200, "null_content"),
     OpenAICall(TRUE, TRUE, TRUE, "response", 200, "content")}

\* the user moves a slider: the script reruns with the new value
MoveSlider(name, v) ==
    /\ v # sliders[name]
    /\ sliders' = [sliders EXCEPT ![name] = v]
    /\ last_run' = "slider"
    /\ error' = "none"
    /\ UNCHANGED <<analyzed, prediction, guidance, weak_areas, features,
                   scores, ml_service, openai_service, demo, analyses>>

\* lines 568-575: the six session keys are set and the script reruns; the
\* sliders have no key, so their values stay
HighRiskDemo ==
    /\ demo' = HighRiskDemoValues
    /\ last_run' = "high_demo"
    /\ error' = "none"
    /\ UNCHANGED <<sliders, analyzed, prediction, guidance, weak_areas,
                   features, scores, ml_service, openai_service, analyses>>

\* lines 578-585
LowRiskDemo ==
    /\ demo' = LowRiskDemoValues
    /\ last_run' = "low_demo"
    /\ error' = "none"
    /\ UNCHANGED <<sliders, analyzed, prediction, guidance, weak_areas,
                   features, scores, ml_service, openai_service, analyses>>

\* the secrets read at line 537 or the answers of the services change
ServicesChange ==
    /\ ml_service' \in SessionMLCalls
    /\ openai_service' \in SessionOpenAICalls
    /\ UNCHANGED <<sliders, analyzed, prediction, guidance, weak_areas,
                   features, scores, error, demo, last_run, analyses>>

Init ==
    /\ sliders = SliderDefaults
    /\ ml_service \in SessionMLCalls
    /\ openai_service \in SessionOpenAICalls
    /\ SessionInit

Next ==
    \/ \E name \in DOMAIN SessionSliderValues :
           \E v \in SessionSliderValues[name] : MoveSlider(name, v)
    \/ HighRiskDemo
    \/ LowRiskDemo
    \/ ServicesChange
    \/ Analyze

Spec == Init /\ [][Next]_vars

\* lines 639 and 657: the notice "Using fallback prediction" is displayed
NoticeShown ==
    analyzed /\ Truthy(prediction) /\ Get(prediction, "is_fallback", FALSE)

-----------------------------------------------------------------------------
(* Properties of the local scorer *)

\* an analysis has stored the features of a student
Scored == Truthy(features)

\* the six hard-override conditions (previous_gpa < 5.0 is gpa < 50 tenths)
Override(f) ==
    \/ f.attendance_pct < 60
    \/ f.assignment_score < 50
    \/ f.quiz_score < 50
    \/ f.midterm_score < 50
    \/ f.study_hours_per_week < 5
    \/ f.previous_gpa < 50

\* C1: whenever one of the six override conditions holds of the features,
\* the local scorer called with them returns High with confidence 0.95.
C1_HardOverride ==
    (Scored /\ Override(features)) =>
        LET r == fallback_prediction(features)
        IN r.risk_level = "High" /\ r.confidence = 95

\* the classification of a record by two thresholds and three confidences
ClassifiedBy(r, score100, high_below, medium_below, c_high, c_medium, c_low) ==
    /\ score100 < high_below =>
           r.risk_level = "High" /\ r.confidence = c_high
    /\ (score100 >= high_below /\ score100 < medium_below) =>
           r.risk_level = "Medium" /\ r.confidence = c_medium
    /\ score100 >= medium_below =>
           r.risk_level = "Low" /\ r.confidence = c_low

\* C2 as stated: with no override firing, the local scorer classifies by
\* score < 55 -> High 0.90, 55 <= score < 70 -> Medium 0.85, score >= 70 ->
\* Low 0.88.
C2_Thresholds_55_70 ==
    (Scored /\ ~Override(features)) =>
        ClassifiedBy(fallback_prediction(features), Score100(features),
                     5500, 7000, 90, 85, 88)

\* C2 as amended: with no override firing, the local scorer classifies by
\* score < 60 -> High 0.85, 60 <= score < 75 -> Medium 0.80, score >= 75 ->
\* Low 0.90, so a score of exactly 60 or 75 falls in the lower-risk bucket.
C2_Thresholds_60_75 ==
    (Scored /\ ~Override(features)) =>
        ClassifiedBy(fallback_prediction(features), Score100(features),
                     6000, 7500, 85, 80, 90)

\* a student with no override whose score is exactly 60.00, scored locally
\* as Medium
C2_Witness ==
    /\ Scored /\ ~Override(features)
    /\ Score100(features) = 6000
    /\ ~ml_service.endpoint_url
    /\ prediction.risk_level = "Medium" /\ prediction.confidence = 80

\* the remote call produced a result that predict uses: credentials set, a
\* 200 response, and a body whose output has a first row of at least five
\* numbers
RemoteResultUsed(call) ==
    /\ call.endpoint_url /\ call.api_key
    /\ call.post = "response" /\ call.status_code = 200
    /\ call.body.json = "object" /\ call.body.has_output
    /\ Len(call.body.output) > 0
    /\ call.body.output[1].is_list
    /\ Len(call.body.output[1].vals) >= 5
    /\ \A i \in 1..5 : call.body.output[1].vals[i].t = "num"

\* C3: whenever predict does not use a remote result, the risk level and
\* the confidence it returns are those the local scorer computes from the
\* six metrics of the call.
C3_FallbackUsesMetrics ==
    (Truthy(prediction) /\ ~RemoteResultUsed(ml_service)) =>
        /\ prediction.risk_level = fallback_prediction(features).risk_level
        /\ prediction.confidence = fallback_prediction(features).confidence

\* C4: whatever the remote call comes to, predict returns a record with a
\* risk level of High, Medium or Low and a confidence; no exception leaves
\* it.
C4_NeverFatal ==
    Scored =>
        /\ error = "none"
        /\ Truthy(prediction)
        /\ prediction.risk_level \in RiskLevels
        /\ "confidence" \in DOMAIN prediction

\* a prediction returned although the 200 response carried the JSON null
C4_Witness ==
    /\ Scored /\ Truthy(prediction)
    /\ ml_service.endpoint_url /\ ml_service.api_key
    /\ ml_service.post = "response" /\ ml_service.status_code = 200
    /\ ml_service.body.json = "null"

-----------------------------------------------------------------------------
(* Properties of the guidance *)

\* the remote guidance generator is not configured or its call fails
GuidanceUnavailable(call) ==
    \/ ~call.endpoint \/ ~call.api_key \/ ~call.deployment
    \/ call.post # "response"
    \/ call.status_code # 200
    \/ call.choices \notin {"content", "null_content"}

\* C5: whenever the remote guidance generator is not configured or its
\* call fails, generate_guidance returns, without raising, the static plan
\* of the risk level it was given, one of the three plans.
C5_GuidanceFallback ==
    (Truthy(prediction) /\ GuidanceUnavailable(openai_service)) =>
        /\ error = "none"
        /\ analyzed
        /\ guidance = plans[prediction.risk_level]
        /\ guidance \in {plans.High, plans.Medium, plans.Low}

\* the High plan returned for a 200 response without the key "choices"
C5_Witness ==
    /\ analyzed
    /\ openai_service.endpoint /\ openai_service.api_key
    /\ openai_service.deployment
    /\ openai_service.post = "response" /\ openai_service.status_code = 200
    /\ openai_service.choices = "missing"
    /\ prediction.risk_level = "High"
    /\ guidance = plans.High

\* the weak-area lists of the student profiles of SliderStates
WeakAreaLists == {identify_weak_areas(ScoresOf(s)) : s \in SliderStates}

\* C6: the static guidance is parameterized by the weak-area list, so the
\* text returned for the same risk level and a different weak-area list
\* differs from the text returned for this one.
C6_GuidanceUsesWeakAreas ==
    (analyzed /\ GuidanceUnavailable(openai_service)) =>
        \A w \in WeakAreaLists :
            w # weak_areas =>
                generate_guidance(prediction.risk_level, w, scores,
                                  openai_service).val # guidance

-----------------------------------------------------------------------------
(* Properties of the weak areas *)

\* the metric is in the list
Flagged(w, metric) == \E i \in DOMAIN w : w[i].metric = metric

\* C7: a metric is in the weak-area list if and only if it is strictly
\* below its target: attendance 75, assignment, quiz and midterm 60, study
\* hours 10, GPA 6.0.
C7_WeakAreaThresholds ==
    Truthy(scores) =>
        /\ Flagged(weak_areas, "Attendance") <=> scores.attendance < 75
        /\ Flagged(weak_areas, "Assignments") <=> scores.assignment < 60
        /\ Flagged(weak_areas, "Quizzes") <=> scores.quiz < 60
        /\ Flagged(weak_areas, "Midterm") <=> scores.midterm < 60
        /\ Flagged(weak_areas, "Study Hours") <=> scores.study_hours < 10
        /\ Flagged(weak_areas, "GPA") <=> scores.gpa < 60

\* every metric exactly at its target but the quiz score, which alone is
\* flagged
C7_Witness ==
    /\ Truthy(scores)
    /\ scores.attendance = 75 /\ scores.assignment = 60
    /\ scores.midterm = 60 /\ scores.study_hours = 10 /\ scores.gpa = 60
    /\ scores.quiz = 45
    /\ weak_areas = <<Label("Quizzes", 45)>>

\* the place of a metric in the fixed order
MetricOrder ==
    <<"Attendance", "Assignments", "Quizzes", "Midterm", "Study Hours", "GPA">>

Rank(metric) == CHOOSE i \in DOMAIN MetricOrder : MetricOrder[i] = metric

\* C8: the weak-area list is a subsequence of attendance, assignment, quiz,
\* midterm, study hours, GPA, and holds no metric twice.
C8_WeakAreaOrder ==
    /\ \A i \in DOMAIN weak_areas :
           \E k \in DOMAIN MetricOrder : weak_areas[i].metric = MetricOrder[k]
    /\ \A i, j \in DOMAIN weak_areas :
           i < j => Rank(weak_areas[i].metric) < Rank(weak_areas[j].metric)

\* all six metrics below target and listed
C8_Witness ==
    /\ Truthy(scores)
    /\ Len(weak_areas) = 6
    /\ weak_areas[1].metric = "Attendance" /\ weak_areas[6].metric = "GPA"

-----------------------------------------------------------------------------
(* Properties of the weighted score *)

\* C9: the six weights sum to 1.0, and a student whose normalized inputs
\* are all 100 (the four percentages 100, study hours >= 20, GPA 10) gets a
\* weighted score of 100.
C9_WeightSum ==
    /\ Weights.attendance_pct + Weights.assignment_score
         + Weights.quiz_score + Weights.midterm_score
         + Weights.study_hours_per_week + Weights.previous_gpa = 100
    /\ (/\ Scored
        /\ features.attendance_pct = 100 /\ features.assignment_score = 100
        /\ features.quiz_score = 100 /\ features.midterm_score = 100
        /\ features.study_hours_per_week >= 20
        /\ features.previous_gpa = 100)
       => Score100(features) = 10000

\* C10: two records that agree on the other five metrics and both have at
\* least 20 study hours get the same weighted score, risk level and
\* confidence from the local scorer.
C10_StudyHoursClamp ==
    (Scored /\ features.study_hours_per_week >= 20) =>
        \A h \in StudyHoursValues :
            h >= 20 =>
                LET f2 == [features EXCEPT !.study_hours_per_week = h]
                    r1 == fallback_prediction(features)
                    r2 == fallback_prediction(f2)
                IN /\ Score100(f2) = Score100(features)
                   /\ r2.risk_level = r1.risk_level
                   /\ r2.confidence = r1.confidence

-----------------------------------------------------------------------------
(* Scenario B *)

\* C11: for scenario B the weighted score of the local scorer is at least
\* its Low threshold (75), the local scorer returns Low, and no weak area
\* is listed.
C11_ScenarioB ==
    (Scored /\ features = FeaturesOf(ScenarioB)) =>
        /\ Score100(features) >= 7500
        /\ fallback_prediction(features).risk_level = "Low"
        /\ weak_areas = <<>>

-----------------------------------------------------------------------------
(* Properties of the remote response *)

\* C15: a prediction is marked is_fallback exactly when predict did not use
\* a remote result, and the notice is displayed exactly for such a result.
C15_FallbackMarking ==
    /\ Truthy(prediction) =>
           (prediction.is_fallback <=> ~RemoteResultUsed(ml_service))
    /\ analyzed => (NoticeShown <=> ~RemoteResultUsed(ml_service))

\* a marked prediction that came out of a 200 response without "output"
C15_Witness ==
    /\ analyzed
    /\ ml_service.endpoint_url /\ ml_service.api_key
    /\ ml_service.post = "response" /\ ml_service.status_code = 200
    /\ ml_service.body = Body("object", FALSE, <<>>)
    /\ prediction.is_fallback /\ NoticeShown

\* predict received a 200 response with a JSON object
Responded200(call) ==
    /\ call.endpoint_url /\ call.api_key
    /\ call.post = "response" /\ call.status_code = 200
    /\ call.body.json = "object"

\* C16: from a 200 response whose output is non-empty with a first row of
\* at least five numbers, the risk level is High, Medium, Low for class 0,
\* 1, 2 and Medium for any other class, and the confidence and the three
\* probabilities are the values at positions 1 to 4; from a response
\* without output, with empty output or with fewer than five values the
\* result is a fallback prediction.
C16_ResponseDecoding ==
    (Truthy(prediction) /\ Responded200(ml_service)) =>
        LET b == ml_service.body IN
        /\ RemoteResultUsed(ml_service) =>
               LET v == b.output[1].vals IN
               /\ v[1].v = 0 => prediction.risk_level = "High"
               /\ v[1].v = 1 => prediction.risk_level = "Medium"
               /\ v[1].v = 2 => prediction.risk_level = "Low"
               /\ v[1].v \notin {0, 1, 2} => prediction.risk_level = "Medium"
               /\ prediction.confidence = v[2].v
               /\ prediction.probabilities =
                      [High |-> v[3].v, Medium |-> v[4].v, Low |-> v[5].v]
               /\ ~prediction.is_fallback
        /\ (\/ ~b.has_output
            \/ Len(b.output) = 0
            \/ (b.output[1].is_list /\ Len(b.output[1].vals) < 5)) =>
               /\ prediction.is_fallback
               /\ prediction.probabilities =
                      [High |-> 30, Medium |-> 40, Low |-> 30]

\* class 3 decoded as Medium with the confidence of the response
C16_Witness ==
    /\ Truthy(prediction) /\ Responded200(ml_service)
    /\ ml_service.body = Body("object", TRUE, <<GoodRow(3)>>)
    /\ prediction.risk_level = "Medium" /\ prediction.confidence = 97

-----------------------------------------------------------------------------
(* Properties of the session *)

\* this step is a run of the analysis
AnalysisStep ==
    /\ last_run' = "analyze"
    /\ ml_service' = ml_service /\ openai_service' = openai_service

\* the record is one that _fallback_prediction returned to predict's caller
\* unchanged
LocalScorerResult(p) ==
    Truthy(p) /\ p.is_fallback /\ p.response_time = "0.1"

\* the three static plans
Templates == {plans.High, plans.Medium, plans.Low}

\* C12: whatever the session went through before, an analysis of the same
\* metrics gets from the local scorer the result the previous analysis got
\* from it, and the static guidance for the same risk level and weak areas
\* is the text the previous analysis got.
C12_Stateless ==
    [][AnalysisStep =>
        /\ (/\ features' = features
            /\ LocalScorerResult(prediction)
            /\ LocalScorerResult(prediction'))
           => prediction' = prediction
        /\ (/\ analyzed
            /\ guidance \in Templates /\ guidance' \in Templates
            /\ prediction'.risk_level = prediction.risk_level
            /\ weak_areas' = weak_areas)
           => guidance' = guidance]_vars

\* a second analysis of the session, scored locally with static guidance,
\* after a demo button has left its values in the session state
C12_Witness ==
    /\ analyses >= 2 /\ last_run = "analyze"
    /\ demo # Empty
    /\ LocalScorerResult(prediction)
    /\ guidance \in Templates

\* C13: an analysis run right after a demo button, with no slider moved in
\* between, scores, checks and stores that demo's six values.
C13_DemoValuesAnalyzed ==
    [][(AnalysisStep /\ last_run \in {"high_demo", "low_demo"}) =>
        LET d == IF last_run = "high_demo" THEN HighRiskDemoValues
                 ELSE LowRiskDemoValues
        IN /\ features' = FeaturesOf(d)
           /\ scores' = ScoresOf(d)
           /\ weak_areas' = identify_weak_areas(ScoresOf(d))]_vars

\* the stored values belong to one analysis: the scores are the features,
\* the weak areas are those of the scores, the prediction is one predict
\* returns for the features, the guidance one generate_guidance returns for
\* the prediction's risk level and the weak areas
SameAnalysis ==
    /\ Truthy(features) /\ Truthy(scores)
    /\ features = [attendance_pct |-> scores.attendance,
                   assignment_score |-> scores.assignment,
                   quiz_score |-> scores.quiz,
                   midterm_score |-> scores.midterm,
                   study_hours_per_week |-> scores.study_hours,
                   previous_gpa |-> scores.gpa]
    /\ weak_areas = identify_weak_areas(scores)
    /\ \E m \in SessionMLCalls : prediction = predict(features, m).val
    /\ \E o \in SessionOpenAICalls :
           guidance = generate_guidance(prediction.risk_level, weak_areas,
                                        scores, o).val

\* C14: in every reachable state analyzed implies that prediction is not
\* None, that guidance is set, and that the stored features, scores, weak
\* areas, prediction and guidance come from one analysis, the most recent;
\* analyzed never returns to False.
C14_SessionConsistency ==
    /\ [](analyzed =>
            /\ Truthy(prediction)
            /\ Truthy(guidance)
            /\ SameAnalysis)
    /\ [][AnalysisStep =>
            /\ features' = FeaturesOf(sliders)
            /\ prediction' = predict(features', ml_service).val]_vars
    /\ [][analyzed => analyzed']_vars

\* C14 without "guidance is set" (not checked as a claim: the rest of C14)
SessionConsistentButGuidance ==
    /\ [](analyzed => (Truthy(prediction) /\ SameAnalysis))
    /\ [][AnalysisStep =>
            /\ features' = FeaturesOf(sliders)
            /\ prediction' = predict(features', ml_service).val]_vars
    /\ [][analyzed => analyzed']_vars

=============================================================================
